---- MODULE Spec2Model ----
(***************************************************************************)
(* A model of dm-data-relationship-simplifier (src/main.py): the loader,   *)
(* the relationship simplifier, the anonymizer, the saver and the driver.  *)
(*                                                                         *)
(* JSON values are records with one fixed set of fields, so that values of *)
(* different JSON types can be compared:                                   *)
(*   t      the Python type of the value: "str", "int", "bool", "float",   *)
(*          "null", "list" or "dict"                                       *)
(*   g      where the value comes from: "orig" for a value of the input,   *)
(*          otherwise the generator that made it ("name", "email", ...)    *)
(*   s      the text of an original string, a sequence of characters       *)
(*   n      the number of an int, bool (0/1) or float, or the draw of the  *)
(*          random generator a synthetic value was made from               *)
(*   items  the elements of a list                                         *)
(*   order  the keys of a dict, in insertion order                         *)
(*   fields the dict itself, a function from keys to values                *)
(* Keys are sequences of characters, because the anonymizer lowercases     *)
(* them and searches them for substrings.                                  *)
(***************************************************************************)
EXTENDS Integers, Sequences, FiniteSets, TLC

VARIABLES
  argv,        \* the command line of the run
  args,        \* the namespace setup_argparse returned
  inputFile,   \* the file at args.input
  outputFile,  \* the file at args.output
  data,        \* the document in memory, mutated in place by the stages
  rng,         \* the process-wide generator of the random module
  fakerRng,    \* the generator shared by the Faker instances
  pc,          \* where the run stands
  completed,   \* the stages that have returned normally, in order
  exc,         \* the exception in flight, "none" for none
  exitStatus,  \* the exit status of the process, once it has exited
  prevRun      \* the output file an earlier run of the same command left

vars == <<argv, args, inputFile, outputFile, data, rng, fakerRng, pc, completed,
          exc, exitStatus, prevRun>>

(***************************************************************************)
(* Bounds of the model.                                                    *)
(***************************************************************************)
MaxRels == 3
MaxDatasets == 1
MaxRecords == 2

(***************************************************************************)
(* JSON values.                                                            *)
(***************************************************************************)
JV(t, g, s, n, items, order, fields) ==
  [t |-> t, g |-> g, s |-> s, n |-> n, items |-> items, order |-> order,
   fields |-> fields]

JStr(s) == JV("str", "orig", s, 0, <<>>, <<>>, <<>>)
JInt(n) == JV("int", "orig", <<>>, n, <<>>, <<>>, <<>>)
JBool(n) == JV("bool", "orig", <<>>, n, <<>>, <<>>, <<>>)
JFloat(n) == JV("float", "orig", <<>>, n, <<>>, <<>>, <<>>)
JNull == JV("null", "orig", <<>>, 0, <<>>, <<>>, <<>>)
JList(items) == JV("list", "orig", <<>>, 0, items, <<>>, <<>>)
JDict(order, fields) == JV("dict", "orig", <<>>, 0, <<>>, order, fields)
Synthetic(g, n) == JV("str", g, <<>>, n, <<>>, <<>>, <<>>)
SyntheticInt(n) == JV("int", "randint", <<>>, n, <<>>, <<>>, <<>>)

None == JV("none", "orig", <<>>, 0, <<>>, <<>>, <<>>)

\* A dict of one, two or three fields, in this insertion order.
Dict1(k1, v1) == JDict(<<k1>>, [k \in {k1} |-> v1])
Dict2(k1, v1, k2, v2) == JDict(<<k1, k2>>, [k \in {k1, k2} |-> IF k = k1 THEN v1 ELSE v2])
Dict3(k1, v1, k2, v2, k3, v3) ==
  JDict(<<k1, k2, k3>>,
       [k \in {k1, k2, k3} |-> IF k = k1 THEN v1 ELSE IF k = k2 THEN v2 ELSE v3])

\* d[key] = v on a dict: a new key goes to the end of the insertion order.
DictSet(d, key, v) ==
  [d EXCEPT !.order = IF key \in DOMAIN d.fields THEN @ ELSE Append(@, key),
            !.fields = [k \in (DOMAIN d.fields) \cup {key} |->
                          IF k = key THEN v ELSE d.fields[k]]]

\* key in d
HasKey(d, key) == key \in DOMAIN d.fields

\* isinstance(v, dict), isinstance(v, list), isinstance(v, str)
IsDict(v) == v.t = "dict"
IsList(v) == v.t = "list"
IsStr(v) == v.t = "str"
\* isinstance(v, int): bool is a subclass of int in Python.
IsInt(v) == v.t \in {"int", "bool"}

(***************************************************************************)
(* The two random generators: the process-wide generator of the random     *)
(* module and the generator of Faker.  Each is a state in RngStates; a     *)
(* draw moves the state one step and reads the new state.  A generator     *)
(* seeded with None (and the process-wide generator at process start)      *)
(* takes its state from the operating system's entropy: any state.         *)
(* Faker's generator is seeded at line 115 before its first draw, so the   *)
(* state it has before that is never read and is written as 0.             *)
(***************************************************************************)
RngStates == 0 .. 4
Seeds == {1}

RandomStep(s) == (s + 3) % 5
\* random.seed(seed), seed an integer
SeedState(seed) == (2 * seed + 1) % 5
\* random.random(), in hundredths, read after the step
RandomValue(s) == 20 * s + 10
\* random.randint(lo, hi), read after the step
RandInt(lo, hi, s) == lo + ((23 * s + 7) % (hi - lo + 1))

(***************************************************************************)
(* simplify_relationships                                                  *)
(***************************************************************************)
KRelationships == <<"r", "e", "l", "a", "t", "i", "o", "n", "s", "h", "i", "p", "s">>
KDatasets == <<"d", "a", "t", "a", "s", "e", "t", "s">>

\* Python's == on two hashable scalars: numbers (int, bool, float) are equal
\* when their numeric values are, everything else when type and content are.
IsNum(v) == v.t \in {"int", "bool", "float"}
PyEq(v, w) == IF IsNum(v) /\ IsNum(w) THEN v.n = w.n ELSE v = w

\* == on two tuples
TupleEq(a, b) == Len(a) = Len(b) /\ \A i \in DOMAIN a : PyEq(a[i], b[i])

\* hash(v) raises TypeError on a list and on a dict
Hashable(v) == v.t \notin {"list", "dict"}

\* tuple(r) is defined on the iterables: the elements of a list, the keys of a
\* dict, the characters of a string.
Iterable(r) == r.t \in {"list", "dict", "str"}
tuple(r) == IF r.t = "list" THEN r.items
            ELSE IF r.t = "dict" THEN [i \in DOMAIN r.order |-> JStr(r.order[i])]
            ELSE [i \in DOMAIN r.s |-> JStr(<<r.s[i]>>)]

\* t in seen
InSeen(t, seen) == \E u \in seen : TupleEq(u, t)

\* The comprehension of line 88, from entry i on: seen is the set built so far,
\* acc the entries kept so far.
RECURSIVE RemoveRedundantFrom(_, _, _, _)
RemoveRedundantFrom(rels, i, seen, acc) ==
  IF i > Len(rels) THEN [raised |-> "none", out |-> acc]
  ELSE IF ~Iterable(rels[i]) THEN [raised |-> "TypeError", out |-> acc]
  ELSE IF \E j \in DOMAIN tuple(rels[i]) : ~Hashable(tuple(rels[i])[j])
    THEN [raised |-> "TypeError", out |-> acc]
  ELSE IF InSeen(tuple(rels[i]), seen)
    THEN RemoveRedundantFrom(rels, i + 1, seen, acc)
  ELSE RemoveRedundantFrom(rels, i + 1, seen \cup {tuple(rels[i])}, Append(acc, rels[i]))

\* A toggling seen set: a duplicate is dropped and forgotten again.
RECURSIVE RemoveRedundantToggle(_, _, _, _)
RemoveRedundantToggle(rels, i, seen, acc) ==
  IF i > Len(rels) THEN [raised |-> "none", out |-> acc]
  ELSE IF ~Iterable(rels[i]) THEN [raised |-> "TypeError", out |-> acc]
  ELSE IF \E j \in DOMAIN tuple(rels[i]) : ~Hashable(tuple(rels[i])[j])
    THEN [raised |-> "TypeError", out |-> acc]
  ELSE IF InSeen(tuple(rels[i]), seen)
    THEN RemoveRedundantToggle(rels, i + 1,
                               {u \in seen : ~TupleEq(u, tuple(rels[i]))}, acc)
  ELSE RemoveRedundantToggle(rels, i + 1, seen \cup {tuple(rels[i])}, Append(acc, rels[i]))

RemoveRedundantMutant(rels) == RemoveRedundantToggle(rels, 1, {}, <<>>)

\* Lines 87-88: seen = set(); the comprehension over the whole list.
RemoveRedundant(rels) == RemoveRedundantFrom(rels, 1, {}, <<>>)

\* Lines 96-97: data['relationships'] = simplified_relationships; return data
SimplifyStore(d, filtered) ==
  [data |-> DictSet(d, KRelationships, JList(filtered.out)), rng |-> filtered.rng,
   raised |-> "none"]

\* The comprehension of line 93, from entry i on: one random.random() per entry.
RECURSIVE RemoveNonEssentialFrom(_, _, _, _)
RemoveNonEssentialFrom(rels, i, r, acc) ==
  IF i > Len(rels) THEN [rng |-> r, out |-> acc]
  ELSE RemoveNonEssentialFrom(rels, i + 1, RandomStep(r),
         IF RandomValue(RandomStep(r)) > 20 THEN Append(acc, rels[i]) ELSE acc)

RemoveNonEssential(rels, r) == RemoveNonEssentialFrom(rels, 1, r, <<>>)

\* Lines 91-97, on the outcome of lines 85-89: an exception of the
\* comprehension leaves the document as it was.
SimplifyFilter(d, dedup, remove_non_essential, r) ==
  IF dedup.raised # "none" THEN [data |-> d, rng |-> r, raised |-> dedup.raised]
  ELSE IF remove_non_essential
    THEN SimplifyStore(d, RemoveNonEssential(dedup.out, r))
  ELSE SimplifyStore(d, [rng |-> r, out |-> dedup.out])

\* The whole function: the document it leaves (it is mutated in place), the
\* state of the process-wide generator, and the exception raised, if any.
simplify_relationships(d, remove_redundant, remove_non_essential, r) ==
  IF ~IsDict(d) THEN [data |-> d, rng |-> r, raised |-> "ValueError"]
  ELSE IF ~HasKey(d, KRelationships) THEN [data |-> d, rng |-> r, raised |-> "none"]
  ELSE IF ~IsList(d.fields[KRelationships])
    THEN [data |-> d, rng |-> r, raised |-> "ValueError"]
  ELSE SimplifyFilter(d,
         IF remove_redundant THEN RemoveRedundant(d.fields[KRelationships].items)
         ELSE [raised |-> "none", out |-> d.fields[KRelationships].items],
         remove_non_essential, r)

(***************************************************************************)
(* anonymize_data                                                          *)
(***************************************************************************)
\* args.seed: <<>> is None, <<n>> the integer n
NoSeed == <<>>

\* str.lower() on one character (the keys of the model are ASCII)
LowerChar(c) ==
  CASE c = "A" -> "a" [] c = "B" -> "b" [] c = "C" -> "c" [] c = "D" -> "d"
    [] c = "E" -> "e" [] c = "F" -> "f" [] c = "G" -> "g" [] c = "H" -> "h"
    [] c = "I" -> "i" [] c = "J" -> "j" [] c = "K" -> "k" [] c = "L" -> "l"
    [] c = "M" -> "m" [] c = "N" -> "n" [] c = "O" -> "o" [] c = "P" -> "p"
    [] c = "Q" -> "q" [] c = "R" -> "r" [] c = "S" -> "s" [] c = "T" -> "t"
    [] c = "U" -> "u" [] c = "V" -> "v" [] c = "W" -> "w" [] c = "X" -> "x"
    [] c = "Y" -> "y" [] c = "Z" -> "z"
    [] OTHER -> c
lower(key) == [i \in DOMAIN key |-> LowerChar(key[i])]

\* sub in s, on strings
Contains(sub, s) ==
  \E i \in 0 .. (Len(s) - Len(sub)) : SubSeq(s, i + 1, i + Len(sub)) = sub

KwName == <<"n", "a", "m", "e">>
KwEmail == <<"e", "m", "a", "i", "l">>
KwPhone == <<"p", "h", "o", "n", "e">>
KwAddress == <<"a", "d", "d", "r", "e", "s", "s">>
KwCity == <<"c", "i", "t", "y">>

\* A low branch that does not look at the type of the value.
LowHeuristicAnyType(key, value) ==
  IF Contains(KwName, lower(key)) THEN "name"
  ELSE IF Contains(KwEmail, lower(key)) THEN "email"
  ELSE IF Contains(KwPhone, lower(key)) THEN "phone"
  ELSE "keep"

\* The generator the low branch picks for a pair (lines 141-146), "keep" for none.
LowHeuristic(key, value) ==
  IF IsStr(value) /\ Contains(KwName, lower(key)) THEN "name"
  ELSE IF IsStr(value) /\ Contains(KwEmail, lower(key)) THEN "email"
  ELSE IF IsStr(value) /\ Contains(KwPhone, lower(key)) THEN "phone"
  ELSE "keep"

\* A medium branch that tests for "email" before "name".
MediumHeuristicEmailFirst(key, value) ==
  IF IsStr(value) THEN
    IF Contains(KwEmail, lower(key)) THEN "email"
    ELSE IF Contains(KwName, lower(key)) THEN "name"
    ELSE IF Contains(KwPhone, lower(key)) THEN "phone"
    ELSE IF Contains(KwAddress, lower(key)) THEN "address"
    ELSE IF Contains(KwCity, lower(key)) THEN "city"
    ELSE "word"
  ELSE IF IsInt(value) THEN "randint"
  ELSE "keep"

\* The generator the medium branch picks for a pair (lines 149-163).
MediumHeuristic(key, value) ==
  IF IsStr(value) THEN
    IF Contains(KwName, lower(key)) THEN "name"
    ELSE IF Contains(KwEmail, lower(key)) THEN "email"
    ELSE IF Contains(KwPhone, lower(key)) THEN "phone"
    ELSE IF Contains(KwAddress, lower(key)) THEN "address"
    ELSE IF Contains(KwCity, lower(key)) THEN "city"
    ELSE "word"
  ELSE IF IsInt(value) THEN "randint"
  ELSE "keep"

\* A high branch that replaces text only.
HighHeuristicTextOnly(key, value) == IF IsStr(value) THEN "uuid4" ELSE "keep"

\* The generator the high branch picks (line 167).
HighHeuristic(key, value) == "uuid4"

\* Lines 139-167: the generator chosen for one key-value pair at a level.
Heuristic(level, key, value) ==
  IF level = "low" THEN LowHeuristic(key, value)
  ELSE IF level = "medium" THEN MediumHeuristic(key, value)
  ELSE IF level = "high" THEN HighHeuristic(key, value)
  ELSE "keep"

\* record[key] = <what generator h makes>: the new value and the two
\* generators after it.  A Faker provider draws from Faker's generator,
\* random.randint from the process-wide one.
Generate(h, value, r, f) ==
  IF h = "keep" THEN [value |-> value, rng |-> r, faker |-> f]
  ELSE IF h = "randint"
    THEN [value |-> SyntheticInt(RandInt(0, 100, RandomStep(r))),
          rng |-> RandomStep(r), faker |-> f]
  ELSE [value |-> Synthetic(h, RandomStep(f)), rng |-> r, faker |-> RandomStep(f)]

\* The body of the loop of line 138 for one pair.
Substitute(level, key, value, r, f) == Generate(Heuristic(level, key, value), value, r, f)

\* for key, value in record.items(), from the k-th key on; sub is what the
\* body made of the key before.
RECURSIVE AnonymizeRecordFrom(_, _, _, _, _)
\* A loop body that writes the value under the lowercased key.
AnonymizeRecordNextLowerKey(record, k, level, sub) ==
  AnonymizeRecordFrom(DictSet(record, lower(record.order[k]), sub.value), k + 1,
                      level, sub.rng, sub.faker)

AnonymizeRecordNext(record, k, level, sub) ==
  AnonymizeRecordFrom(DictSet(record, record.order[k], sub.value), k + 1, level,
                      sub.rng, sub.faker)

AnonymizeRecordFrom(record, k, level, r, f) ==
  IF k > Len(record.order) THEN [record |-> record, rng |-> r, faker |-> f]
  ELSE AnonymizeRecordNext(record, k, level,
         Substitute(level, record.order[k], record.fields[record.order[k]], r, f))

\* for record in dataset, from the j-th record on: records are mutated in
\* place, so the records before a record that is no dict stay anonymized.
RECURSIVE AnonymizeDatasetFrom(_, _, _, _, _)
AnonymizeDatasetNext(dataset, j, level, rec) ==
  AnonymizeDatasetFrom([dataset EXCEPT !.items[j] = rec.record], j + 1, level,
                       rec.rng, rec.faker)

AnonymizeDatasetFrom(dataset, j, level, r, f) ==
  IF j > Len(dataset.items)
    THEN [dataset |-> dataset, rng |-> r, faker |-> f, raised |-> "none"]
  ELSE IF ~IsDict(dataset.items[j])
    THEN [dataset |-> dataset, rng |-> r, faker |-> f, raised |-> "ValueError"]
  ELSE AnonymizeDatasetNext(dataset, j, level,
         AnonymizeRecordFrom(dataset.items[j], 1, level, r, f))

\* for dataset in datasets, from the i-th dataset on; ds is what the inner
\* loop made of the dataset before.
RECURSIVE AnonymizeDatasetsFrom(_, _, _, _, _)
AnonymizeDatasetsNext(datasets, i, level, ds) ==
  IF ds.raised # "none"
    THEN [datasets |-> [datasets EXCEPT !.items[i] = ds.dataset], rng |-> ds.rng,
          faker |-> ds.faker, raised |-> ds.raised]
  ELSE AnonymizeDatasetsFrom([datasets EXCEPT !.items[i] = ds.dataset], i + 1,
                             level, ds.rng, ds.faker)

AnonymizeDatasetsFrom(datasets, i, level, r, f) ==
  IF i > Len(datasets.items)
    THEN [datasets |-> datasets, rng |-> r, faker |-> f, raised |-> "none"]
  ELSE IF ~IsList(datasets.items[i])
    THEN [datasets |-> datasets, rng |-> r, faker |-> f, raised |-> "ValueError"]
  ELSE AnonymizeDatasetsNext(datasets, i, level,
         AnonymizeDatasetFrom(datasets.items[i], 1, level, r, f))

\* The records are mutated in place: the document holds what the loops made.
AnonymizeStore(d, res) ==
  [data |-> DictSet(d, KDatasets, res.datasets), rng |-> res.rng,
   faker |-> res.faker, raised |-> res.raised]

\* Lines 111-115: random.seed(seed) when a seed is given, Faker.seed(seed) always.
SeedRandom(seed, r) == IF seed # NoSeed THEN SeedState(seed[1]) ELSE r
SeedFaker(seed, entropy) == IF seed # NoSeed THEN SeedState(seed[1]) ELSE entropy

\* The whole function, on a dict d (main passes it the document that
\* simplify_relationships returned).  r is the process-wide generator, entropy
\* the state Faker.seed(None) gives Faker's generator.
anonymize_data(d, level, seed, r, entropy) ==
  IF ~HasKey(d, KDatasets)
    THEN [data |-> d, rng |-> SeedRandom(seed, r), faker |-> SeedFaker(seed, entropy),
          raised |-> "none"]
  ELSE IF ~IsList(d.fields[KDatasets])
    THEN [data |-> d, rng |-> SeedRandom(seed, r), faker |-> SeedFaker(seed, entropy),
          raised |-> "ValueError"]
  ELSE AnonymizeStore(d, AnonymizeDatasetsFrom(d.fields[KDatasets], 1, level,
                           SeedRandom(seed, r), SeedFaker(seed, entropy)))

(***************************************************************************)
(* The inputs of the model.                                                *)
(***************************************************************************)
KUserName == <<"u", "s", "e", "r", "_", "n", "a", "m", "e">>
KAge == <<"a", "g", "e">>
KEmailName == <<"E", "m", "a", "i", "l", "_", "N", "a", "m", "e">>
KActive == <<"a", "c", "t", "i", "v", "e">>
KCityAddress == <<"c", "i", "t", "y", "_", "A", "d", "d", "r", "e", "s", "s">>
KPhone == <<"p", "h", "o", "n", "e">>
KNote == <<"n", "o", "t", "e">>
KEmail == <<"e", "m", "a", "i", "l">>
KCity == <<"C", "I", "T", "Y">>
KScore == <<"s", "c", "o", "r", "e">>
KTags == <<"t", "a", "g", "s">>
KName == <<"n", "a", "m", "e">>
KAddress == <<"a", "d", "d", "r", "e", "s", "s">>
KMeta == <<"m", "e", "t", "a">>
KExtra == <<"e", "x", "t", "r", "a">>

TextA == JStr(<<"a">>)
TextB == JStr(<<"b">>)
TextC == JStr(<<"c">>)
TextD == JStr(<<"d">>)

\* The records of the datasets: between them every heuristic, keys that match
\* two heuristics, upper-case keys, and every JSON type under matching and
\* non-matching keys.
Records ==
  { Dict2(KUserName, JStr(<<"A", "l", "i", "c", "e">>), KAge, JInt(30)),
    Dict2(KEmailName, TextA, KActive, JBool(1)),
    Dict3(KCityAddress, TextB, KPhone, TextC, KNote, TextD),
    Dict3(KEmail, TextA, KCity, TextB, KScore, JFloat(2)),
    Dict3(KName, JInt(7), KAddress, TextC, KPhone, JNull),
    Dict3(KTags, JList(<<TextA>>), KMeta, Dict1(KName, TextB), KEmail, JBool(0)) }

\* What a dataset may hold: the records and a value that is no dict.
DatasetItems == Records \cup {TextA}

\* The sequences over S of length n, and of length at most n
SeqsOfLen(S, n) == [1 .. n -> S]
SeqsUpTo(S, n) == UNION {SeqsOfLen(S, k) : k \in 0 .. n}

\* The lists of at most k datasets that hold at most n items between them; a
\* dataset is a list of items or a value that is no list.
RECURSIVE DatasetLists(_, _)
DatasetLists(k, n) ==
  IF k = 0 THEN {<<>>}
  ELSE {<<>>}
       \cup {<<JInt(5)>> \o rest : rest \in DatasetLists(k - 1, n)}
       \cup UNION {{<<JList(d)>> \o rest : d \in SeqsOfLen(DatasetItems, j),
                                          rest \in DatasetLists(k - 1, n - j)}
                   : j \in 0 .. n}

\* The entries of a relationships list: pairs, entries equal as tuples but
\* not as JSON (1 and true), an entry with an unhashable element, and an
\* entry that is no sequence.
RelEntries ==
  { JList(<<TextA, TextB>>), JList(<<TextB, TextA>>), JList(<<TextC, TextD>>),
    JList(<<JInt(1)>>), JList(<<JBool(1)>>), JList(<<JList(<<TextA>>)>>), JInt(5) }

ExampleRels == JList(<<JList(<<TextA, TextB>>), JList(<<TextA, TextB>>),
                      JList(<<TextC, TextD>>)>>)
ExampleDatasets ==
  JList(<<JList(<<Dict2(KUserName, JStr(<<"A", "l", "i", "c", "e">>), KAge, JInt(30))>>)>>)

\* The documents simplify_relationships is called on.
SimplifyDocs ==
  {Dict2(KRelationships, JList(rels), KDatasets, ExampleDatasets) :
      rels \in SeqsUpTo(RelEntries, MaxRels)}
  \cup { Dict1(KDatasets, ExampleDatasets),
         Dict1(KRelationships, TextA),
         JList(<<TextA>>) }

\* The documents anonymize_data is called on.
AnonymizeDocs ==
  {Dict3(KRelationships, ExampleRels, KDatasets, JList(ds), KExtra, JInt(1)) :
      ds \in DatasetLists(MaxDatasets, MaxRecords)}
  \cup { Dict1(KRelationships, ExampleRels),
         Dict2(KRelationships, ExampleRels, KDatasets, TextA) }

\* The JSON documents the driver is run on.
DriverDocs ==
  { Dict2(KRelationships, ExampleRels, KDatasets, JList(<<>>)),
    Dict2(KRelationships, ExampleRels, KDatasets, ExampleDatasets),
    Dict1(KDatasets, ExampleDatasets),
    Dict1(KRelationships, ExampleRels),
    Dict2(KRelationships, TextA, KDatasets, ExampleDatasets),
    Dict2(KRelationships, JList(<<JList(<<JList(<<TextA>>)>>)>>), KDatasets, ExampleDatasets),
    Dict2(KRelationships, ExampleRels, KDatasets, TextA),
    Dict2(KRelationships, ExampleRels, KDatasets, JList(<<JInt(5)>>)),
    Dict2(KRelationships, ExampleRels, KDatasets,
          JList(<<JList(<<Dict1(KName, TextA), TextB>>)>>)),
    JList(<<TextA>>) }

Levels == {"low", "medium", "high"}
SeedOptions == {NoSeed} \cup {<<n>> : n \in Seeds}

\* The command lines: every combination of valid options, and the invalid ones:
\* -i or -o missing, a level outside the choices.
ValidArgvs ==
  [input : {TRUE}, output : {TRUE}, remove_redundant : BOOLEAN,
   remove_non_essential : BOOLEAN, anonymize_data : BOOLEAN,
   anonymization_level : Levels, seed : SeedOptions]
Argvs ==
  ValidArgvs
  \cup [input : BOOLEAN, output : BOOLEAN, remove_redundant : {TRUE},
        remove_non_essential : {FALSE}, anonymize_data : BOOLEAN,
        anonymization_level : Levels \cup {"extreme"}, seed : {NoSeed}]

NoArgs == [input |-> FALSE, output |-> FALSE, remove_redundant |-> FALSE,
           remove_non_essential |-> FALSE, anonymize_data |-> FALSE,
           anonymization_level |-> "none", seed |-> NoSeed]

\* A file: absent, or holding text that is no JSON, or holding a document
\* (whole, or cut short by a failed write).
File(status, doc) == [status |-> status, doc |-> doc]
NoFile == File("absent", None)
InputFiles ==
  {NoFile, File("malformed", None), File("unreadable", None)}
  \cup {File("json", d) : d \in DriverDocs}

(***************************************************************************)
(* The driver: one run of main, stage by stage.                            *)
(***************************************************************************)
\* The exit status: <<>> while the process runs, <<n>> once it has exited.
Running == <<>>
Exited(n) == <<n>>

\* The status argparse exits with when it rejects the command line.
ArgparseErrorStatus == 2

\* parser.parse_args(): a command line without a required option, or with a
\* level outside the choices, ends the process in parser.error().
setup_argparse(a) ==
  IF ~a.input \/ ~a.output \/ a.anonymization_level \notin {"low", "medium", "high"}
    THEN [error |-> TRUE, args |-> NoArgs]
  ELSE [error |-> FALSE, args |-> a]

\* load_data: the document of the file, or sys.exit(1) from each handler.
load_data(file) ==
  IF file.status = "json" THEN [exit |-> Running, data |-> file.doc]
  ELSE [exit |-> Exited(1), data |-> None]

\* save_data: io is what the file system does: open() fails and the file is
\* left as it was ("open"), json.dump fails part-way and leaves a cut file
\* ("write"), or the document is written ("ok").  A failure ends in sys.exit(1).
IoOutcomes == {"ok", "open", "write"}
save_data(d, file, io) ==
  IF io = "open" THEN [exit |-> Exited(1), file |-> file]
  ELSE IF io = "write" THEN [exit |-> Exited(1), file |-> File("partial", None)]
  ELSE [exit |-> Running, file |-> File("json", d)]

\* A try block that lets every exception through to the next stage.
AfterStageSwallow(raised, next) == next

\* The try of main: an exception of a stage goes to the except clause.
AfterStage(raised, next) == IF raised # "none" THEN "except" ELSE next

Init ==
  /\ argv \in Argvs
  /\ args = NoArgs
  /\ inputFile \in InputFiles
  /\ outputFile = NoFile
  /\ data = None
  /\ rng \in RngStates
  /\ fakerRng = 0
  /\ pc = "parse"
  /\ completed = <<>>
  /\ exc = "none"
  /\ exitStatus = Running
  /\ prevRun = NoFile

\* Line 191.
ParseArgs ==
  /\ pc = "parse"
  /\ LET p == setup_argparse(argv) IN
       /\ args' = p.args
       /\ pc' = IF p.error THEN "exit" ELSE "validate"
       /\ exitStatus' = IF p.error THEN Exited(ArgparseErrorStatus) ELSE Running
  /\ UNCHANGED <<argv, inputFile, outputFile, data, rng, fakerRng, completed, exc,
                 prevRun>>

\* Lines 194-196.
ValidateLevel ==
  /\ pc = "validate"
  /\ LET bad == args.anonymize_data
                /\ args.anonymization_level \notin {"low", "medium", "high"} IN
       /\ pc' = IF bad THEN "exit" ELSE "load"
       /\ exitStatus' = IF bad THEN Exited(1) ELSE Running
  /\ UNCHANGED <<argv, args, inputFile, outputFile, data, rng, fakerRng, completed,
                 exc, prevRun>>

\* Line 199.  sys.exit raises SystemExit, which except Exception lets through.
Load ==
  /\ pc = "load"
  /\ LET res == load_data(inputFile) IN
       /\ data' = res.data
       /\ exitStatus' = res.exit
       /\ pc' = IF res.exit = Running THEN "simplify" ELSE "exit"
       /\ exc' = IF res.exit = Running THEN "none" ELSE "SystemExit"
       /\ completed' = IF res.exit = Running THEN Append(completed, "load")
                       ELSE completed
  /\ UNCHANGED <<argv, args, inputFile, outputFile, rng, fakerRng, prevRun>>

\* A stage of main has returned res or raised res.raised: the document and the
\* generators are what the stage left, and main goes on at next or in its
\* except clause.
StageReturns(stage, res, next) ==
  /\ data' = res.data
  /\ rng' = res.rng
  /\ fakerRng' = res.faker
  /\ exc' = res.raised
  /\ pc' = AfterStage(res.raised, next)
  /\ completed' = IF res.raised = "none" THEN Append(completed, stage) ELSE completed

\* simplify_relationships does not touch Faker's generator.
WithFaker(res, f) ==
  [data |-> res.data, rng |-> res.rng, faker |-> f, raised |-> res.raised]

\* Line 200.
Simplify ==
  /\ pc = "simplify"
  /\ StageReturns("simplify",
                  WithFaker(simplify_relationships(data, args.remove_redundant,
                                                   args.remove_non_essential, rng),
                            fakerRng),
                  IF args.anonymize_data THEN "anonymize" ELSE "save")
  /\ UNCHANGED <<argv, args, inputFile, outputFile, exitStatus, prevRun>>

\* Lines 202-203.
Anonymize ==
  /\ pc = "anonymize"
  /\ \E entropy \in RngStates :
       StageReturns("anonymize",
                    anonymize_data(data, args.anonymization_level, args.seed, rng,
                                   entropy),
                    "save")
  /\ UNCHANGED <<argv, args, inputFile, outputFile, exitStatus, prevRun>>

\* Lines 205 and 211: after a save that worked main returns, status 0.
Save ==
  /\ pc = "save"
  /\ \E io \in IoOutcomes :
       LET res == save_data(data, outputFile, io) IN
         /\ outputFile' = res.file
         /\ exitStatus' = IF res.exit = Running THEN Exited(0) ELSE res.exit
         /\ exc' = IF res.exit = Running THEN "none" ELSE "SystemExit"
         /\ completed' = IF res.exit = Running THEN Append(completed, "save")
                         ELSE completed
  /\ pc' = "exit"
  /\ UNCHANGED <<argv, args, inputFile, data, rng, fakerRng, prevRun>>

\* Lines 207-209.
Except ==
  /\ pc = "except"
  /\ pc' = "exit"
  /\ exitStatus' = Exited(1)
  /\ UNCHANGED <<argv, args, inputFile, outputFile, data, rng, fakerRng, completed,
                 exc, prevRun>>

\* The same command is run again on the same input, in a new process: the
\* file the run before wrote is kept aside, and the generators start from
\* the entropy of the new process.
Rerun ==
  /\ pc = "exit"
  /\ exitStatus = Exited(0)
  /\ prevRun' = outputFile
  /\ outputFile' = NoFile
  /\ args' = NoArgs
  /\ data' = None
  /\ rng' \in RngStates
  /\ fakerRng' = 0
  /\ pc' = "parse"
  /\ completed' = <<>>
  /\ exc' = "none"
  /\ exitStatus' = Running
  /\ UNCHANGED <<argv, inputFile>>

Next ==
  \/ ParseArgs
  \/ ValidateLevel
  \/ Load
  \/ Simplify
  \/ Anonymize
  \/ Save
  \/ Except
  \/ Rerun

Spec == Init /\ [][Next]_vars

(***************************************************************************)
(* simplify_relationships on its own: called on a document, then called    *)
(* again on the document it returned, with the same flags.                 *)
(***************************************************************************)
InitSimplify ==
  /\ argv \in {a \in ValidArgvs : /\ ~a.anonymize_data
                                 /\ a.anonymization_level = "medium"
                                 /\ a.seed = NoSeed}
  /\ args = argv
  /\ inputFile \in {File("json", d) : d \in SimplifyDocs}
  /\ data = inputFile.doc
  /\ outputFile = NoFile
  /\ rng \in RngStates
  /\ fakerRng = 0
  /\ pc = "call1"
  /\ completed = <<>>
  /\ exc = "none"
  /\ exitStatus = Running
  /\ prevRun = NoFile

\* A call has returned res or raised res.raised.
CallReturns(stage, res, next) ==
  /\ data' = res.data
  /\ rng' = res.rng
  /\ fakerRng' = res.faker
  /\ exc' = res.raised
  /\ pc' = IF res.raised # "none" THEN "raised" ELSE next
  /\ completed' = IF res.raised = "none" THEN Append(completed, stage) ELSE completed

CallSimplify ==
  /\ pc \in {"call1", "call2"}
  /\ CallReturns("simplify",
                 WithFaker(simplify_relationships(data, args.remove_redundant,
                                                  args.remove_non_essential, rng),
                           fakerRng),
                 IF pc = "call1" THEN "call2" ELSE "returned")
  /\ UNCHANGED <<argv, args, inputFile, outputFile, exitStatus, prevRun>>

NextSimplify == CallSimplify

SpecSimplify == InitSimplify /\ [][NextSimplify]_vars

(***************************************************************************)
(* anonymize_data on its own: called once on a document.                   *)
(***************************************************************************)
InitAnonymize ==
  /\ argv \in {a \in ValidArgvs : /\ a.anonymize_data
                                 /\ ~a.remove_redundant
                                 /\ ~a.remove_non_essential}
  /\ args = argv
  /\ inputFile \in {File("json", d) : d \in AnonymizeDocs}
  /\ data = inputFile.doc
  /\ outputFile = NoFile
  /\ rng \in RngStates
  /\ fakerRng = 0
  /\ pc = "call"
  /\ completed = <<>>
  /\ exc = "none"
  /\ exitStatus = Running
  /\ prevRun = NoFile

CallAnonymize ==
  /\ pc = "call"
  /\ \E entropy \in RngStates :
       CallReturns("anonymize",
                   anonymize_data(data, args.anonymization_level, args.seed, rng,
                                  entropy),
                   "returned")
  /\ UNCHANGED <<argv, args, inputFile, outputFile, exitStatus, prevRun>>

NextAnonymize == CallAnonymize

SpecAnonymize == InitAnonymize /\ [][NextAnonymize]_vars

(***************************************************************************)
(* The claims.                                                             *)
(***************************************************************************)
InputDoc == inputFile.doc
Rels(d) == d.fields[KRelationships].items
HasRelsList(d) == IsDict(d) /\ HasKey(d, KRelationships) /\ IsList(d.fields[KRelationships])
RecAt(d, i, j) == d.fields[KDatasets].items[i].items[j]

\* P(key, value before, value after) of every field of every record
AllFields(P(_, _, _)) ==
  \A i \in DOMAIN InputDoc.fields[KDatasets].items :
    \A j \in DOMAIN InputDoc.fields[KDatasets].items[i].items :
      \A key \in DOMAIN RecAt(InputDoc, i, j).fields :
        P(key, RecAt(InputDoc, i, j).fields[key], RecAt(data, i, j).fields[key])

SomeField(P(_, _, _)) ==
  \E i \in DOMAIN InputDoc.fields[KDatasets].items :
    \E j \in DOMAIN InputDoc.fields[KDatasets].items[i].items :
      \E key \in DOMAIN RecAt(InputDoc, i, j).fields :
        P(key, RecAt(InputDoc, i, j).fields[key], RecAt(data, i, j).fields[key])

\* anonymize_data has returned from a document with datasets, at this level
Anonymized(level) ==
  /\ pc = "returned"
  /\ args.anonymization_level = level
  /\ HasKey(InputDoc, KDatasets)

\* The entries of rels that equal, as tuples, no entry before them, in order.
FirstOccurrences(rels) ==
  LET first == {i \in DOMAIN rels :
                  \A j \in 1 .. (i - 1) : ~TupleEq(rels[j].items, rels[i].items)}
      kept == SelectSeq([i \in DOMAIN rels |-> i], LAMBDA i : i \in first)
  IN [k \in DOMAIN kept |-> rels[kept[k]]]

\* simplify_relationships is called with remove_redundant only, on a list of
\* sequence entries
DedupCall ==
  /\ args.remove_redundant
  /\ ~args.remove_non_essential
  /\ HasRelsList(InputDoc)
  /\ \A i \in DOMAIN Rels(InputDoc) : IsList(Rels(InputDoc)[i])

AllHashable(rels) ==
  \A i \in DOMAIN rels : \A j \in DOMAIN rels[i].items : Hashable(rels[i].items[j])

\* What C4 says of the list out that a call made of the list in.
DedupResult(in, out) ==
  /\ out = FirstOccurrences(in)
  /\ Len(out) <= Len(in)
  /\ \A i, j \in DOMAIN out : i # j => ~TupleEq(out[i].items, out[j].items)
  /\ \A i \in DOMAIN in : \E j \in DOMAIN out : TupleEq(out[j].items, in[i].items)

\* C4, as claimed: with remove_redundant only, the first call on any list of
\* sequence entries returns, and returns the first occurrence of each distinct
\* entry, in the original order.
C4_DedupAnySequenceEntries ==
  (DedupCall /\ pc # "call1") =>
     /\ pc # "raised"
     /\ pc = "call2" => DedupResult(Rels(InputDoc), Rels(data))

\* C4, amended: with remove_redundant only, on a list of sequence entries whose
\* elements are all hashable, the first call returns the first occurrence of
\* each distinct entry (entries compared as Python tuples), in the original
\* order; on a list with an entry that has a list or dict element it raises
\* TypeError and leaves the document as it was.
C4_DedupHashableEntries ==
  (DedupCall /\ pc # "call1") =>
     IF AllHashable(Rels(InputDoc))
       THEN /\ pc # "raised"
            /\ pc = "call2" => DedupResult(Rels(InputDoc), Rels(data))
       ELSE pc = "raised" /\ exc = "TypeError" /\ data = InputDoc

\* C4's case: the example of the specification, [[a,b],[a,b],[c,d]], has
\* become [[a,b],[c,d]].
C4_Witness ==
  /\ DedupCall
  /\ pc = "call2"
  /\ Rels(InputDoc) = ExampleRels.items
  /\ Rels(data) = <<JList(<<TextA, TextB>>), JList(<<TextC, TextD>>)>>

\* C5: deduplication is idempotent: a second call of simplify_relationships
\* with remove_redundant only, on the document the first call returned,
\* returns and leaves the document as the first call left it.
C5_DedupIdempotent ==
  [][(pc = "call2" /\ args.remove_redundant /\ ~args.remove_non_essential)
       => (data' = data /\ pc' = "returned")]_vars

\* C5's case: the first call dropped a duplicate and the second call has returned.
C5_Witness ==
  /\ pc = "returned"
  /\ args.remove_redundant
  /\ ~args.remove_non_essential
  /\ HasRelsList(InputDoc)
  /\ Len(Rels(data)) < Len(Rels(InputDoc))

\* C3, as claimed: at level medium a field whose value is neither text nor an
\* integer (a boolean, null, float, list or dict) keeps its value.
C3_MediumKeepsNonTextNonInteger ==
  Anonymized("medium") =>
    AllFields(LAMBDA key, old, new : old.t \notin {"str", "int"} => new = old)

\* C6: at level high, after anonymize_data has returned, every value of every
\* field of every record is a uuid4 string that Faker generated, whatever the
\* key and the type of the original value.
C6_HighReplacesEveryValue ==
  Anonymized("high") =>
    AllFields(LAMBDA key, old, new : new.t = "str" /\ new.g = "uuid4" /\ new # old)

\* C6's case: values that are no text (a boolean, a null, a list) under keys
\* that match no heuristic have become uuid4 strings.
C6_Witness ==
  /\ Anonymized("high")
  /\ SomeField(LAMBDA key, old, new : old.t = "bool" /\ new.g = "uuid4")
  /\ SomeField(LAMBDA key, old, new : old.t \in {"null", "list"} /\ new.g = "uuid4")

MatchesLow(key) ==
  \/ Contains(KwName, lower(key))
  \/ Contains(KwEmail, lower(key))
  \/ Contains(KwPhone, lower(key))

\* C7: at level low a value is replaced only if it is text and its lowercased
\* key contains "name", "email" or "phone"; every other field keeps its value.
C7_LowReplacesOnlyMatchingText ==
  Anonymized("low") =>
    AllFields(LAMBDA key, old, new : new # old => (IsStr(old) /\ MatchesLow(key)))

\* C7's case: a text value under a matching key was replaced, while an integer
\* under a matching key and a text under a key that matches nothing were kept.
C7_Witness ==
  /\ Anonymized("low")
  /\ SomeField(LAMBDA key, old, new : new # old)
  /\ SomeField(LAMBDA key, old, new : ~IsStr(old) /\ MatchesLow(key) /\ new = old)
  /\ SomeField(LAMBDA key, old, new : IsStr(old) /\ ~MatchesLow(key) /\ new = old)

\* The heuristics in their order, and the first of them whose keyword the
\* lowercased key contains ("none" when there is none).
HeuristicOrder == <<"name", "email", "phone", "address", "city">>
Keyword(h) ==
  CASE h = "name" -> KwName [] h = "email" -> KwEmail [] h = "phone" -> KwPhone
    [] h = "address" -> KwAddress [] h = "city" -> KwCity
FirstMatch(key, n) ==
  LET hits == {i \in 1 .. n : Contains(Keyword(HeuristicOrder[i]), lower(key))}
  IN IF hits = {} THEN "none"
     ELSE HeuristicOrder[CHOOSE i \in hits : \A j \in hits : i <= j]

\* The examples of C9, key by key: what a text value under the key becomes at
\* low and at medium ("keep" for the original value).
ExampleGenerator(key, level) ==
  CASE key = KEmailName -> "name"
    [] key = KUserName -> "name"
    [] key = KCityAddress -> IF level = "medium" THEN "address" ELSE "keep"
    [] key = KAddress -> IF level = "medium" THEN "address" ELSE "keep"
    [] key = KCity -> IF level = "medium" THEN "city" ELSE "keep"
    [] key = KNote -> IF level = "medium" THEN "word" ELSE "keep"
    [] key = KEmail -> "email"
    [] key = KPhone -> "phone"
    [] OTHER -> "any"
AsExample(key, level, old, new) ==
  CASE ExampleGenerator(key, level) = "any" -> TRUE
    [] ExampleGenerator(key, level) = "keep" -> new = old
    [] OTHER -> new.g = ExampleGenerator(key, level)

\* C9: a text value gets the generator of the first heuristic, in the order
\* name, email, phone, and at medium address, city, whose keyword its
\* lowercased key contains; with no match it gets a generic word at medium and
\* is kept at low.  So a key with "name" and "email" gets a name at both
\* levels, a key with "address" and "city" an address at medium, and a key
\* with only "address" or "city" is kept at low.
C9_FirstMatchingHeuristic ==
  /\ \A level \in {"low", "medium"} :
       Anonymized(level) =>
         AllFields(LAMBDA key, old, new : IsStr(old) => AsExample(key, level, old, new))
  /\ Anonymized("low") =>
       AllFields(LAMBDA key, old, new :
         IsStr(old) => IF FirstMatch(key, 3) = "none" THEN new = old
                       ELSE new.g = FirstMatch(key, 3))
  /\ Anonymized("medium") =>
       AllFields(LAMBDA key, old, new :
         IsStr(old) => IF FirstMatch(key, 5) = "none" THEN new.g = "word"
                       ELSE new.g = FirstMatch(key, 5))

\* C9's case: at medium a key with "email" and "name" got a name and a key
\* with "city" and "address" got an address.
C9_Witness ==
  /\ Anonymized("medium")
  /\ SomeField(LAMBDA key, old, new : key = KEmailName /\ IsStr(old) /\ new.g = "name")
  /\ SomeField(LAMBDA key, old, new : key = KCityAddress /\ IsStr(old) /\ new.g = "address")

\* C10: a call of anonymize_data that returns leaves the shape of the document:
\* the same top-level keys, every top-level value but datasets unchanged, as
\* many datasets, as many records in each, the same keys in each record.
C10_AnonymizeKeepsShape ==
  pc = "returned" =>
    /\ DOMAIN data.fields = DOMAIN InputDoc.fields
    /\ data.order = InputDoc.order
    /\ \A key \in DOMAIN InputDoc.fields :
         key # KDatasets => data.fields[key] = InputDoc.fields[key]
    /\ HasKey(InputDoc, KDatasets) =>
         /\ Len(data.fields[KDatasets].items) = Len(InputDoc.fields[KDatasets].items)
         /\ \A i \in DOMAIN InputDoc.fields[KDatasets].items :
              /\ Len(data.fields[KDatasets].items[i].items)
                   = Len(InputDoc.fields[KDatasets].items[i].items)
              /\ \A j \in DOMAIN InputDoc.fields[KDatasets].items[i].items :
                   /\ DOMAIN RecAt(data, i, j).fields = DOMAIN RecAt(InputDoc, i, j).fields
                   /\ RecAt(data, i, j).order = RecAt(InputDoc, i, j).order

\* C10's case: a document with a dataset of two records, whose values the
\* call has changed.
C10_Witness ==
  /\ pc = "returned"
  /\ HasKey(InputDoc, KDatasets)
  /\ Len(InputDoc.fields[KDatasets].items) = 1
  /\ Len(InputDoc.fields[KDatasets].items[1].items) = 2
  /\ \A j \in 1 .. 2 : RecAt(data, 1, j) # RecAt(InputDoc, 1, j)

\* The inputs on which a stage of the run fails, as C8 lists them.
LoadFails == inputFile.status # "json"
SimplifyFails ==
  /\ ~LoadFails
  /\ \/ ~IsDict(InputDoc)
     \/ HasKey(InputDoc, KRelationships) /\ ~IsList(InputDoc.fields[KRelationships])
BadDatasets(ds) ==
  \/ ~IsList(ds)
  \/ \E i \in DOMAIN ds.items :
       \/ ~IsList(ds.items[i])
       \/ \E j \in DOMAIN ds.items[i].items : ~IsDict(ds.items[i].items[j])
AnonymizeFails ==
  /\ ~LoadFails
  /\ argv.anonymize_data
  /\ IsDict(InputDoc)
  /\ HasKey(InputDoc, KDatasets)
  /\ BadDatasets(InputDoc.fields[KDatasets])
InvalidArgv ==
  ~argv.input \/ ~argv.output \/ argv.anonymization_level \notin Levels

\* The stages that come before the save, in their order.
StagesBeforeSave ==
  IF args.anonymize_data THEN <<"load", "simplify", "anonymize">>
  ELSE <<"load", "simplify">>

\* C8: the save is reached, and the output file touched, only after load,
\* simplify_relationships and (with --anonymize-data) anonymize_data have
\* returned, in this order; when a stage fails (load error, document no dict,
\* relationships or datasets no list, dataset no list, record no dict) the
\* output file is never opened and the process exits with a status other than 0.
C8_SaveOnlyAfterStages ==
  /\ (pc = "save" \/ outputFile # NoFile) =>
       completed \in {StagesBeforeSave, Append(StagesBeforeSave, "save")}
  /\ (LoadFails \/ SimplifyFails \/ AnonymizeFails) =>
       /\ pc # "save"
       /\ outputFile = NoFile
       /\ prevRun = NoFile
       /\ pc = "exit" => exitStatus # Exited(0)

\* C8's case: anonymize_data raised on a record that is no dict after it had
\* anonymized the record before it; the run exited with 1 and no output file.
C8_Witness ==
  /\ pc = "exit"
  /\ AnonymizeFails
  /\ completed = <<"load", "simplify">>
  /\ exc = "ValueError"
  /\ data # InputDoc
  /\ exitStatus = Exited(1)
  /\ outputFile = NoFile

\* C2, as claimed: every run ends with status 0 or 1, and every fatal error
\* (input file missing or unreadable, malformed JSON, a document of the wrong
\* shape, a failed save, an invalid command line) ends it with status 1.
C2_FatalErrorsExitOne ==
  pc = "exit" =>
    /\ exitStatus \in {Exited(0), Exited(1)}
    /\ (InvalidArgv \/ LoadFails \/ SimplifyFails \/ AnonymizeFails \/ exc # "none")
         => exitStatus = Exited(1)

\* C1, as claimed: two runs of the same command line, with
\* --remove-non-essential and a --seed, on the same input retain the same
\* relationship entries, whatever state the process-wide generator starts in.
C1_SeededRetentionDeterministic ==
  ( /\ pc = "exit"
    /\ exitStatus = Exited(0)
    /\ prevRun.status = "json"
    /\ argv.remove_non_essential
    /\ argv.seed # NoSeed
    /\ HasRelsList(InputDoc) )
  => Rels(outputFile.doc) = Rels(prevRun.doc)

====
